---- MODULE Spec2Model ----
(***************************************************************************)
(* Model of src/fuzzy.ts (class Fuzzy): the preparation of search and      *)
(* target strings, the two process-wide preparation caches, the public     *)
(* operation single and the feasibility walk of the private algorithm.     *)
(*                                                                         *)
(* A string is a sequence of UTF-16 code units.  Positions are 0-based as  *)
(* in the source; the element at position i of an array a is a[i + 1].     *)
(***************************************************************************)
EXTENDS Integers, Sequences, FiniteSets, TLC

\* ------------------------------------------------------------------ bounds
MaxLen == 1        \* longest short string handed to single
MaxCalls == 2      \* calls of single / go explored in one behaviour
MaxWalk == 5       \* iterations of the walk loop that are followed
MaxPrepLen == 3    \* longest string handed to the boundary analyzer alone

\* ------------------------------------------------------- program constants
MAX_SEARCH_STRING_LENGTH_FOR_CACHING == 999
MAX_TARGET_STRING_LENGTH_FOR_CACHING == 999

\* ------------------------------------------------------------ input domains
\* 'A', 'b'
CallChars == {65, 98}
\* '.', '/', '0', '9', ':', '@', 'A', 'Z', '[', '`', 'a', 'z', '{'
PrepChars == {46, 47, 48, 57, 58, 64, 65, 90, 91, 96, 97, 122, 123}

StringsUpTo(chars, n) == UNION {[1..k -> chars] : k \in 0..n}

\* a string of n letters 'a'
Filled(n) == [i \in 1..n |-> 97]

CallStrings == StringsUpTo(CallChars, MaxLen)
\* strings at and just past the caching threshold, and two short ones
CacheStrings == {Filled(MAX_SEARCH_STRING_LENGTH_FOR_CACHING),
                 Filled(MAX_SEARCH_STRING_LENGTH_FOR_CACHING + 1),
                 <<>>, <<65>>}
PrepStrings == StringsUpTo(PrepChars, MaxPrepLen)

\* ------------------------------------------------------------------ arrays
\* a[k] of a JavaScript array: undefined past the end
ArrGet(a, k) ==
  IF k >= 0 /\ k < Len(a) THEN [defined |-> TRUE, v |-> a[k + 1]]
  ELSE [defined |-> FALSE, v |-> 0]

\* a[k] = x for k <= a.length (the only writes the source makes)
ArrSet(a, k, x) ==
  IF k < Len(a) THEN [a EXCEPT ![k + 1] = x] ELSE Append(a, x)

fillNumberArray(size) == [i \in 1..size |-> 0]

\* ---------------------------------------------------------------- normalizer
\* String.prototype.toLowerCase on the code units the inputs are drawn from
toLowerCase(s) ==
  [i \in 1..Len(s) |-> IF s[i] >= 65 /\ s[i] <= 90 THEN s[i] + 32 ELSE s[i]]

prepareLowerCodes(search) ==
  LET searchLen == Len(search)
      lowerCodes == fillNumberArray(searchLen)
      lower == toLowerCase(search)
  IN [i \in 1..searchLen |-> lower[i]]

prepareSearch(search) == prepareLowerCodes(search)

\* ---------------------------------------------------------- boundary analyzer
\* loop state of prepareBeginningIndexes before its first iteration
BeginningStart ==
  [i |-> 0, wasUpper |-> FALSE, wasAlphanum |-> FALSE, beginningIndexes |-> <<>>]

\* BeginningBody without the rule that a non-alphanumeric character is a beginning
BeginningBodyNoSymbolRule(target, st) ==
  LET targetCode == target[st.i + 1]
      isUpper == targetCode >= 65 /\ targetCode <= 90
      isAlphanum == \/ isUpper
                    \/ (targetCode >= 97 /\ targetCode <= 122)
                    \/ (targetCode >= 48 /\ targetCode <= 57)
      isBeginning == (isUpper /\ ~st.wasUpper) \/ ~st.wasAlphanum
  IN [i |-> st.i + 1,
      wasUpper |-> isUpper,
      wasAlphanum |-> isAlphanum,
      beginningIndexes |-> IF isBeginning
                           THEN Append(st.beginningIndexes, st.i)
                           ELSE st.beginningIndexes]

\* one iteration of the for loop of prepareBeginningIndexes
BeginningBody(target, st) ==
  LET targetCode == target[st.i + 1]
      isUpper == targetCode >= 65 /\ targetCode <= 90
      isAlphanum == \/ isUpper
                    \/ (targetCode >= 97 /\ targetCode <= 122)
                    \/ (targetCode >= 48 /\ targetCode <= 57)
      isBeginning == (isUpper /\ ~st.wasUpper) \/ ~st.wasAlphanum \/ ~isAlphanum
  IN [i |-> st.i + 1,
      wasUpper |-> isUpper,
      wasAlphanum |-> isAlphanum,
      beginningIndexes |-> IF isBeginning
                           THEN Append(st.beginningIndexes, st.i)
                           ELSE st.beginningIndexes]

\* the iterations lo .. hi - 1 of that loop, in order, from loop state st
\* (split in two halves, the first evaluated before the second is entered, to
\* keep the evaluation shallow on long strings; half.i = mid always holds)
RECURSIVE BeginningLoop(_, _, _, _)
BeginningLoop(target, st, lo, hi) ==
  IF hi <= lo THEN st
  ELSE IF hi = lo + 1 THEN BeginningBody(target, st)
  ELSE LET mid == (lo + hi) \div 2
           half == BeginningLoop(target, st, lo, mid)
       IN IF half.i = mid THEN BeginningLoop(target, half, mid, hi) ELSE half

prepareBeginningIndexes(target) ==
  BeginningLoop(target, BeginningStart, 0, Len(target)).beginningIndexes

\* loop state of prepareNextBeginningIndexes before its first iteration
NextBeginningStart(target, beginningIndexes) ==
  [i |-> 0,
   lastIsBeginning |-> ArrGet(beginningIndexes, 0),
   lastIsBeginningI |-> 0,
   nextBeginningIndexes |-> fillNumberArray(Len(target))]

\* NextBeginningBody with lastIsBeginning >= i for lastIsBeginning > i
NextBeginningBodyAtOrAfter(target, beginningIndexes, st) ==
  LET targetLen == Len(target)
  IN IF st.lastIsBeginning.defined /\ st.lastIsBeginning.v >= st.i
     THEN [st EXCEPT !.i = st.i + 1,
                     !.nextBeginningIndexes =
                        ArrSet(st.nextBeginningIndexes, st.i, st.lastIsBeginning.v)]
     ELSE LET last == ArrGet(beginningIndexes, st.lastIsBeginningI + 1)
          IN [i |-> st.i + 1,
              lastIsBeginning |-> last,
              lastIsBeginningI |-> st.lastIsBeginningI + 1,
              nextBeginningIndexes |->
                 ArrSet(st.nextBeginningIndexes, st.i,
                        IF last.defined THEN last.v ELSE targetLen)]

\* one iteration of the for loop of prepareNextBeginningIndexes;
\* lastIsBeginning > i is false when lastIsBeginning is undefined
NextBeginningBody(target, beginningIndexes, st) ==
  LET targetLen == Len(target)
  IN IF st.lastIsBeginning.defined /\ st.lastIsBeginning.v > st.i
     THEN [st EXCEPT !.i = st.i + 1,
                     !.nextBeginningIndexes =
                        ArrSet(st.nextBeginningIndexes, st.i, st.lastIsBeginning.v)]
     ELSE LET last == ArrGet(beginningIndexes, st.lastIsBeginningI + 1)
          IN [i |-> st.i + 1,
              lastIsBeginning |-> last,
              lastIsBeginningI |-> st.lastIsBeginningI + 1,
              nextBeginningIndexes |->
                 ArrSet(st.nextBeginningIndexes, st.i,
                        IF last.defined THEN last.v ELSE targetLen)]

\* the iterations lo .. hi - 1 of that loop, in order, from loop state st
RECURSIVE NextBeginningLoop(_, _, _, _, _)
NextBeginningLoop(target, beginningIndexes, st, lo, hi) ==
  IF hi <= lo THEN st
  ELSE IF hi = lo + 1 THEN NextBeginningBody(target, beginningIndexes, st)
  ELSE LET mid == (lo + hi) \div 2
           half == NextBeginningLoop(target, beginningIndexes, st, lo, mid)
       IN IF half.i = mid
          THEN NextBeginningLoop(target, beginningIndexes, half, mid, hi)
          ELSE half

prepareNextBeginningIndexes(target) ==
  LET beginningIndexes == prepareBeginningIndexes(target)
  IN NextBeginningLoop(target, beginningIndexes,
                       NextBeginningStart(target, beginningIndexes),
                       0, Len(target)).nextBeginningIndexes

prepareTarget(target) ==
  [target |-> target,
   score |-> "null",
   indexes |-> "null",
   obj |-> "null",
   _targetLowerCodes |-> prepareLowerCodes(target),
   _nextBeginningIndexes |-> prepareNextBeginningIndexes(target)]

\* ------------------------------------------------------------ program state
VARIABLES
  searchCache,      \* module-level Map: search string -> PreparedSearch
  targetCache,      \* module-level Map: target string -> PreparedTarget
  matchesSimple,    \* module-level scratch array
  op,               \* the public operation called last: "none", "single", "go"
  pc,               \* "idle", "walk" (inside the while loop), "done", "threw"
  search,           \* first argument of the call
  target,           \* second argument of the call (go: the sequence of targets)
  allowTypo,        \* local of single
  preparedSearch,   \* argument of algorithm
  preparedTarget,   \* argument of algorithm
  searchIndex,      \* locals of algorithm
  targetIndex,
  typoSimpleIndex,
  matchesSimpleLen,
  searchLowerCode,
  result,           \* value returned by single: "none" while there is none
  ranking,          \* sequence returned by go: empty while there is none
  searchHit,        \* getPreparedSearch returned the cached entry
  targetHit,        \* getPreparedTarget returned the cached entry
  calls,            \* number of public calls made
  walkSteps,        \* iterations of the while loop of algorithm in this call
  ptarget,          \* boundary analyzer run alone: its argument
  ppc,              \* "off", "beginning", "next", "done"
  bst,              \* loop state of prepareBeginningIndexes
  nst               \* loop state of prepareNextBeginningIndexes

callVars == <<searchCache, targetCache, matchesSimple, op, pc, search, target,
              allowTypo, preparedSearch, preparedTarget, searchIndex,
              targetIndex, typoSimpleIndex, matchesSimpleLen, searchLowerCode,
              result, ranking, searchHit, targetHit, calls, walkSteps>>
prepVars == <<ptarget, ppc, bst, nst>>
vars == <<callVars, prepVars>>

\* ------------------------------------------------------------------- values
Null == [tag |-> "null"]
Undefined == [tag |-> "undefined"]
Str(s) == [tag |-> "str", val |-> s]
Obj(v) == [tag |-> "obj", val |-> v]

\* thing == null for !thing: the empty string passes
FalsyNullish(thing) == thing.tag \in {"null", "undefined"}

\* !thing
Falsy(thing) ==
  \/ thing.tag \in {"null", "undefined"}
  \/ (thing.tag = "str" /\ Len(thing.val) = 0)

\* typeof thing === "object"
isObj(thing) == thing.tag \in {"obj", "null"}

\* a === b on array elements that may be undefined
StrictEq(a, b) == (a.defined = b.defined) /\ (a.defined => a.v = b.v)

EmptyMap == [k \in {} |-> 0]
MapSet(m, k, v) == [x \in (DOMAIN m) \cup {k} |-> IF x = k THEN v ELSE m[x]]

\* options / instanceOptions: absent, or {allowTypo: true}
OptionValues == {"undefined", "true"}
\* (o && o.allowTypo) is truthy
OptAllowTypo(o) == o = "true"

\* arguments the calls are made with
PreparedSearchArgs == {prepareSearch(s) : s \in StringsUpTo(CallChars, 1)}
PreparedTargetArgs == {prepareTarget(s) : s \in StringsUpTo(CallChars, 1)}
SearchArgs == {Null, Undefined} \cup {Str(s) : s \in CallStrings}
                \cup {Obj(p) : p \in PreparedSearchArgs}
TargetArgs == {Null, Undefined} \cup {Str(s) : s \in CallStrings}
                \cup {Obj(p) : p \in PreparedTargetArgs}
GoTargets == UNION {[1..k -> StringsUpTo(CallChars, 1)] : k \in 0..2}

\* --------------------------------------------------------- preparation cache
getPreparedTarget(cache, t) ==
  IF Len(t) > MAX_TARGET_STRING_LENGTH_FOR_CACHING
  THEN [cache |-> cache, prepared |-> prepareTarget(t), hit |-> FALSE]
  ELSE IF t \in DOMAIN cache
       THEN [cache |-> cache, prepared |-> cache[t], hit |-> TRUE]
       ELSE LET p == prepareTarget(t)
            IN [cache |-> MapSet(cache, t, p), prepared |-> p, hit |-> FALSE]

\* getPreparedSearch without the length test: every string is cached
getPreparedSearchNoLimit(cache, s) ==
  IF s \in DOMAIN cache
  THEN [cache |-> cache, prepared |-> cache[s], hit |-> TRUE]
  ELSE LET p == prepareSearch(s)
       IN [cache |-> MapSet(cache, s, p), prepared |-> p, hit |-> FALSE]

\* getPreparedSearch whose prepared arrays share one buffer: preparing a new
\* search overwrites the entries cached before
getPreparedSearchSharedBuffer(cache, s) ==
  IF Len(s) > MAX_SEARCH_STRING_LENGTH_FOR_CACHING
  THEN [cache |-> cache, prepared |-> prepareSearch(s), hit |-> FALSE]
  ELSE IF s \in DOMAIN cache
       THEN [cache |-> cache, prepared |-> cache[s], hit |-> TRUE]
       ELSE LET p == prepareSearch(s)
            IN [cache |-> [x \in (DOMAIN cache) \cup {s} |-> p],
                prepared |-> p,
                hit |-> FALSE]

getPreparedSearch(cache, s) ==
  IF Len(s) > MAX_SEARCH_STRING_LENGTH_FOR_CACHING
  THEN [cache |-> cache, prepared |-> prepareSearch(s), hit |-> FALSE]
  ELSE IF s \in DOMAIN cache
       THEN [cache |-> cache, prepared |-> cache[s], hit |-> TRUE]
       ELSE LET p == prepareSearch(s)
            IN [cache |-> MapSet(cache, s, p), prepared |-> p, hit |-> FALSE]

\* -------------------------------------------------------------------- single
NoPreparedTarget == prepareTarget(<<>>)
NoCode == [defined |-> FALSE, v |-> 0]

\* the locals of algorithm are dead once the call has returned
LocalsReset ==
  /\ preparedSearch' = <<>>
  /\ preparedTarget' = NoPreparedTarget
  /\ searchIndex' = 0
  /\ targetIndex' = 0
  /\ typoSimpleIndex' = 0
  /\ matchesSimpleLen' = 0
  /\ searchLowerCode' = NoCode
  /\ walkSteps' = 0

Return(value) ==
  /\ pc' = "done"
  /\ result' = value
  /\ LocalsReset
  /\ UNCHANGED <<matchesSimple, ranking>>

\* algorithm(preparedSearch, preparedTarget) up to the head of its while loop
algorithm(pSearch, pTarget) ==
  IF Falsy(pTarget)
  THEN Return("undefined")
  ELSE LET targetLowerCodes == pTarget.val._targetLowerCodes
           targetLen == Len(targetLowerCodes)
       IN IF targetLen = 0
          THEN Return("undefined")
          ELSE /\ pc' = "walk"
               /\ result' = "none"
               /\ preparedSearch' = pSearch
               /\ preparedTarget' = pTarget.val
               /\ searchIndex' = 0
               /\ targetIndex' = 0
               /\ typoSimpleIndex' = 0
               /\ matchesSimpleLen' = 0
               /\ searchLowerCode' = ArrGet(pSearch, 0)
               /\ walkSteps' = 0
               /\ UNCHANGED <<matchesSimple, ranking>>

CanCall == pc \in {"idle", "done", "threw"} /\ calls < MaxCalls

Single(s, t, options, instanceOptions) ==
  /\ CanCall
  /\ calls' = calls + 1
  /\ op' = "single"
  /\ search' = s
  /\ target' = t
  /\ UNCHANGED prepVars
  /\ IF Falsy(s)
     THEN /\ Return("null")
          /\ allowTypo' = FALSE
          /\ searchHit' = FALSE
          /\ targetHit' = FALSE
          /\ UNCHANGED <<searchCache, targetCache>>
     ELSE LET gs == IF isObj(s)
                    THEN [cache |-> searchCache, prepared |-> s.val, hit |-> FALSE]
                    ELSE getPreparedSearch(searchCache, s.val)
          IN /\ searchCache' = gs.cache
             /\ searchHit' = gs.hit
             /\ IF Falsy(t)
                THEN /\ Return("null")
                     /\ allowTypo' = FALSE
                     /\ targetHit' = FALSE
                     /\ UNCHANGED targetCache
                ELSE LET gt == IF isObj(t)
                               THEN [cache |-> targetCache, prepared |-> t.val,
                                     hit |-> FALSE]
                               ELSE getPreparedTarget(targetCache, t.val)
                     IN /\ targetCache' = gt.cache
                        /\ targetHit' = gt.hit
                        /\ allowTypo' = (OptAllowTypo(options)
                                          \/ OptAllowTypo(instanceOptions))
                        /\ algorithm(gs.prepared, Obj(gt.prepared))

\* one iteration of the while (true) loop of algorithm
AlgorithmWalk ==
  /\ pc = "walk"
  /\ walkSteps < MaxWalk
  /\ walkSteps' = walkSteps + 1
  /\ LET targetLowerCodes == preparedTarget._targetLowerCodes
         isMatch == StrictEq(searchLowerCode, ArrGet(targetLowerCodes, targetIndex))
     IN IF isMatch
        THEN /\ matchesSimple' = ArrSet(matchesSimple, matchesSimpleLen, targetIndex)
             /\ matchesSimpleLen' = matchesSimpleLen + 1
             /\ searchIndex' = searchIndex + 1
        ELSE UNCHANGED <<matchesSimple, matchesSimpleLen, searchIndex>>
  /\ UNCHANGED <<searchCache, targetCache, op, pc, search, target, allowTypo,
                 preparedSearch, preparedTarget, targetIndex, typoSimpleIndex,
                 searchLowerCode, result, ranking, searchHit, targetHit, calls>>
  /\ UNCHANGED prepVars

\* the members of class Fuzzy that a caller can invoke
PublicMembers == {"single"}

\* fuzzy.go(search, targets): the class has no such member, the call throws
Go(s, targets) ==
  /\ CanCall
  /\ calls' = calls + 1
  /\ op' = "go"
  /\ search' = Str(s)
  /\ target' = Obj(targets)
  /\ IF "go" \in PublicMembers
     THEN pc' = "done"
     ELSE pc' = "threw"
  /\ result' = "none"
  /\ allowTypo' = FALSE
  /\ searchHit' = FALSE
  /\ targetHit' = FALSE
  /\ LocalsReset
  /\ UNCHANGED <<searchCache, targetCache, matchesSimple, ranking>>
  /\ UNCHANGED prepVars

CallSingle ==
  \E s \in SearchArgs, t \in TargetArgs, o \in OptionValues, io \in OptionValues :
    Single(s, t, o, io)

CallGo == \E s \in StringsUpTo(CallChars, 1), targets \in GoTargets : Go(s, targets)

PrepOff ==
  /\ ptarget = <<>>
  /\ ppc = "off"
  /\ bst = BeginningStart
  /\ nst = NextBeginningStart(<<>>, <<>>)

CallIdle ==
  /\ searchCache = EmptyMap
  /\ targetCache = EmptyMap
  /\ matchesSimple = <<>>
  /\ op = "none"
  /\ pc = "idle"
  /\ search = Undefined
  /\ target = Undefined
  /\ allowTypo = FALSE
  /\ preparedSearch = <<>>
  /\ preparedTarget = NoPreparedTarget
  /\ searchIndex = 0
  /\ targetIndex = 0
  /\ typoSimpleIndex = 0
  /\ matchesSimpleLen = 0
  /\ searchLowerCode = NoCode
  /\ result = "none"
  /\ ranking = <<>>
  /\ searchHit = FALSE
  /\ targetHit = FALSE
  /\ calls = 0
  /\ walkSteps = 0

Init == CallIdle /\ PrepOff

Next == CallSingle \/ AlgorithmWalk \/ CallGo

Spec == Init /\ [][Next]_vars

\* the loop of algorithm keeps running while it can
FairSpec == Spec /\ WF_vars(AlgorithmWalk)

\* ------------------------------ single on strings around the caching threshold
CacheCallSingle ==
  \E s \in CacheStrings, t \in CacheStrings, o \in {"undefined"} :
    Single(Str(s), Str(t), o, o)

CacheNext == CacheCallSingle \/ AlgorithmWalk

CacheSpec == Init /\ [][CacheNext]_vars

\* ------------------------------------------- the boundary analyzer run alone
PrepInit ==
  /\ CallIdle
  /\ ptarget \in PrepStrings
  /\ ppc = "beginning"
  /\ bst = BeginningStart
  /\ nst = NextBeginningStart(<<>>, <<>>)

PrepBeginningStep ==
  /\ ppc = "beginning"
  /\ bst.i < Len(ptarget)
  /\ bst' = BeginningBody(ptarget, bst)
  /\ UNCHANGED <<ptarget, ppc, nst>>
  /\ UNCHANGED callVars

PrepBeginningReturn ==
  /\ ppc = "beginning"
  /\ ~(bst.i < Len(ptarget))
  /\ ppc' = "next"
  /\ nst' = NextBeginningStart(ptarget, bst.beginningIndexes)
  /\ UNCHANGED <<ptarget, bst>>
  /\ UNCHANGED callVars

PrepNextStep ==
  /\ ppc = "next"
  /\ nst.i < Len(ptarget)
  /\ nst' = NextBeginningBody(ptarget, bst.beginningIndexes, nst)
  /\ UNCHANGED <<ptarget, ppc, bst>>
  /\ UNCHANGED callVars

PrepNextReturn ==
  /\ ppc = "next"
  /\ ~(nst.i < Len(ptarget))
  /\ ppc' = "done"
  /\ UNCHANGED <<ptarget, bst, nst>>
  /\ UNCHANGED callVars

PrepNext ==
  PrepBeginningStep \/ PrepBeginningReturn \/ PrepNextStep \/ PrepNextReturn

PrepSpec == PrepInit /\ [][PrepNext]_vars

\* =================================================================== claims
\* s is an in-order, possibly non-contiguous subsequence of t
RECURSIVE IsSubsequence(_, _)
IsSubsequence(s, t) ==
  IF Len(s) = 0 THEN TRUE
  ELSE IF Len(t) = 0 THEN FALSE
  ELSE IF s[1] = t[1] THEN IsSubsequence(Tail(s), Tail(t))
  ELSE IsSubsequence(s, Tail(t))

IsNoMatch(r) == r \in {"null", "undefined"}
IsMatch(r) == r \notin {"none", "null", "undefined"}
NonEmptyString(x) == x.tag = "str" /\ Len(x.val) > 0
EmptyOrAbsent(x) ==
  x.tag = "null" \/ x.tag = "undefined" \/ (x.tag = "str" /\ x.val = <<>>)

\* single was called with a non-empty search string and a non-empty target string
StringCall == op = "single" /\ NonEmptyString(search) /\ NonEmptyString(target)

\* C1: for non-empty search and target strings, single returns a match when
\* the lowercased search is a subsequence of the lowercased target, and
\* returns no-match when it is not.
C1_SingleMatchesExactlySubsequences ==
  [](StringCall =>
       <>(/\ pc = "done"
          /\ StringCall
          /\ IF IsSubsequence(toLowerCase(search.val), toLowerCase(target.val))
             THEN IsMatch(result)
             ELSE IsNoMatch(result)))

\* C2: single returns no-match (null) and does not throw whenever search is
\* empty or absent, or target is empty or absent, whatever the other argument
\* and the caches hold.
C2_EmptyOrAbsentIsNoMatch ==
  (op = "single" /\ (EmptyOrAbsent(search) \/ EmptyOrAbsent(target)))
    => (pc = "done" /\ result = "null")

\* a non-empty search with an empty target, called when the search is cached
C2_Witness ==
  /\ op = "single"
  /\ NonEmptyString(search)
  /\ target = Str(<<>>)
  /\ searchHit
  /\ pc = "done"
  /\ result = "null"

\* C3: the walk of a call finishes after a number of iterations bounded by
\* the search and target lengths.
C3_WalkBoundedByLengths ==
  pc = "walk" =>
    walkSteps <= (Len(preparedSearch) + 1) * (Len(preparedTarget._targetLowerCodes) + 1)

\* every key of either cache has length at most 999, and a string of at most
\* 999 characters that went through preparation is in its cache afterwards
C4_KeysBounded ==
  /\ \A k \in DOMAIN searchCache : Len(k) <= 999
  /\ \A k \in DOMAIN targetCache : Len(k) <= 999
  /\ (op = "single" /\ NonEmptyString(search) /\ Len(search.val) <= 999)
       => search.val \in DOMAIN searchCache
  /\ (StringCall /\ Len(target.val) <= 999) => target.val \in DOMAIN targetCache

\* a call is served from a cache exactly when its string was in it
C4_CachedIsHit ==
  /\ (op' = "single" /\ calls' = calls + 1 /\ NonEmptyString(search'))
       => (searchHit' <=> search'.val \in DOMAIN searchCache)
  /\ (op' = "single" /\ calls' = calls + 1 /\ NonEmptyString(search')
        /\ NonEmptyString(target'))
       => (targetHit' <=> target'.val \in DOMAIN targetCache)

\* C4: every key of either cache has length at most 999; a string of at most
\* 999 characters that went through preparation is in its cache afterwards,
\* and the next call with a string that is in the cache is a hit.
C4_CacheBoundedByLength == []C4_KeysBounded /\ [][C4_CachedIsHit]_vars

\* a hit on a 999-character search, with a 1000-character target that stays
\* out of the target cache
C4_Witness ==
  /\ StringCall
  /\ searchHit
  /\ Len(search.val) = 999
  /\ Len(target.val) = 1000
  /\ target.val \notin DOMAIN targetCache
  /\ pc = "walk"

\* C5: every cached entry, and the prepared form a call works on, equals the
\* fresh preparation of its string.
C5_CacheTransparent ==
  /\ \A s \in DOMAIN searchCache : searchCache[s] = prepareSearch(s)
  /\ \A t \in DOMAIN targetCache :
       /\ targetCache[t] = prepareTarget(t)
       /\ targetCache[t].target = t
  /\ (StringCall /\ pc = "walk")
       => /\ preparedSearch = prepareSearch(search.val)
          /\ preparedTarget = prepareTarget(target.val)

\* a call served from the search cache, its target prepared and cached
C5_Witness ==
  /\ StringCall
  /\ searchHit
  /\ pc = "walk"
  /\ preparedSearch = searchCache[search.val]
  /\ target.val \in DOMAIN targetCache

\* r lists, in input order, exactly the targets that the search matches
RECURSIVE MatchingTargets(_, _)
MatchingTargets(s, targets) ==
  IF Len(targets) = 0 THEN <<>>
  ELSE LET rest == MatchingTargets(s, Tail(targets))
           t == Head(targets)
       IN IF Len(s) > 0 /\ Len(t) > 0
             /\ IsSubsequence(toLowerCase(s), toLowerCase(t))
          THEN <<t>> \o rest
          ELSE rest

SameElements(a, b) ==
  /\ Len(a) = Len(b)
  /\ \A x \in {a[i] : i \in 1..Len(a)} :
       Cardinality({i \in 1..Len(a) : a[i] = x})
         = Cardinality({i \in 1..Len(b) : b[i] = x})

\* C6: go(search, targets) returns the targets that single matches (a
\* reordering, best score first, of the matching targets).
C6_GoReturnsMatchingTargets ==
  op = "go" =>
    /\ pc = "done"
    /\ SameElements(ranking, MatchingTargets(search.val, target.val))

\* the positions recorded so far are strictly increasing valid target
\* positions, at most one per search character
C9_BaselineInv ==
  pc = "walk" =>
    /\ matchesSimpleLen <= Len(preparedSearch)
    /\ \A k \in 1..matchesSimpleLen :
         /\ matchesSimple[k] >= 0
         /\ matchesSimple[k] < Len(preparedTarget._targetLowerCodes)
    /\ \A k \in 1..(matchesSimpleLen - 1) : matchesSimple[k] < matchesSimple[k + 1]

\* the target cursor never moves back during a walk
C9_CursorForward == (pc = "walk" /\ pc' = "walk") => targetIndex' >= targetIndex

\* C9: at every step of the walk the target cursor only moves forward and the
\* baseline positions recorded so far are strictly increasing valid target
\* positions, at most one per search character.
C9_BaselineStrictlyIncreasing == []C9_BaselineInv /\ [][C9_CursorForward]_vars

\* ------------------------------------------------- boundary analyzer claims
IsUpperCode(c) == c \in 65..90
IsAlphanumCode(c) == c \in (65..90) \cup (97..122) \cup (48..57)

\* position i of string t is a word beginning, by the three rules
IsWordBeginning(t, i) ==
  \/ IsUpperCode(t[i + 1]) /\ ~(i > 0 /\ IsUpperCode(t[i]))
  \/ ~(i > 0 /\ IsAlphanumCode(t[i]))
  \/ ~IsAlphanumCode(t[i + 1])

Elements(a) == {a[k] : k \in 1..Len(a)}
StrictlyIncreasing(a) == \A k \in 1..(Len(a) - 1) : a[k] < a[k + 1]
Least(S) == CHOOSE x \in S : \A y \in S : x <= y

\* C10: prepareBeginningIndexes returns, increasing and without duplicates,
\* exactly the word beginnings; position 0 is one for every non-empty string.
C10_BeginningIndexesExact ==
  ppc \in {"beginning", "next", "done"} =>
    /\ StrictlyIncreasing(bst.beginningIndexes)
    /\ Elements(bst.beginningIndexes)
         = {i \in 0..(bst.i - 1) : IsWordBeginning(ptarget, i)}
    /\ (bst.i > 0 => bst.beginningIndexes[1] = 0)
    /\ (ppc # "beginning" => /\ bst.i = Len(ptarget)
                             /\ (bst.beginningIndexes = <<>> <=> ptarget = <<>>))

\* a string with a beginning inside it and a position that is none
C10_Witness ==
  /\ ppc = "done"
  /\ Len(ptarget) = 3
  /\ bst.beginningIndexes = <<0, 2>>

====
